---- MODULE Spec2Model ----
(***************************************************************************)
(* Model of the content-to-answer pipeline of youtube_chat_package:        *)
(*   - VectorDatabase (lib/vector-database.ts, src/unnamed/part_003),      *)
(*     two module-level instances sharing the youtube_embeddings table;    *)
(*   - ConversationalAI (lib/conversational-ai.ts, src/unnamed/part_002),  *)
(*     the module-level instance of app/api/chat/route.ts;                 *)
(*   - the chat route handler and the videos table it reads.               *)
(* LangChain and supabase-js are libraries; what the model assumes about   *)
(* them is stated at the definition that uses it.                          *)
(***************************************************************************)
EXTENDS Integers, Sequences, FiniteSets, TLC

\* ------------------------------------------------------------------ bounds
MaxIds == 2        \* rows the bigserial id sequence hands out in a run
MaxTurns == 4      \* turns kept in the BufferMemory in a run
MaxComments == 2   \* comments in the list of a processComments call
MaxK == 2          \* largest k a caller passes to similaritySearch
RetrieverK == 2    \* k of the chain's retriever (asRetriever() default, scaled)
ChunkSize == 5     \* chunkSize of the text splitter (1000, scaled)
ChunkOverlap == 2  \* chunkOverlap of the text splitter (200, scaled)
MaxRequested == 7
MaxLen == 7        \* characters of a text given to the text splitter

\* ------------------------------------------------------------ input values
DBs == {"chatDb", "ingestDb"}       \* the two module-level VectorDatabase
IngestDb == "ingestDb"              \* the instance of the process-channel route
EngineDb == "chatDb"                \* the one handed to conversationalAI
VideoIds == {"v1", "v2"}
ChannelIds == {"ch1"}
ChannelNames == {"cn1"}
NoT == -1                           \* a url without an "&t=" suffix
\* a url is its text and the seconds of its "&t=" suffix
MetaUrls == {[base |-> "u1", t |-> NoT]}  \* url in the metadata of a chunk
Urls == {[base |-> "u2", t |-> NoT]}      \* url of a row of the videos table
EnrichedVideoIds == {"v1"}          \* videos that get a row in the videos table
Titles == {"", "A"}
Transcripts == {"", "TT"}
ViewCounts == {"1000"}              \* metadata.viewCount of a scraped video
UploadDates == {"2024-01-01"}       \* metadata.uploadDate of a scraped video
NormVideoIds == {"", "v1"}          \* scrapeVideo: extractVideoId(url) || ''
Authors == {"bob"}                  \* comment.author
Contents == {"", "hi", "yo"}        \* comment.content
LikeCounts == {"3"}                 \* comment.likeCount
Comments == [author : Authors, content : Contents, likeCount : LikeCounts]
CommentLists ==
  UNION {[1..n -> Comments] : n \in 0..MaxComments}
\* channelUrl of a POST /api/process-channel: missing, not a channel url,
\* or the url of a channel (named by its id)
ChannelUrls == {"", "notAChannel", "ch1", "ch2"}
IngestChannels == {"ch1", "ch2"}
MockTranscript == "M"               \* the two segments fetchTranscript returns
ShortTranscripts == {"", "S"}       \* "S": one chunk, "[125s] ..." 
Descriptions == {"", "D"}
Conversations == {"c1", "c2"}
\* the messages each conversation sends (disjoint, so a turn tells its origin)
ConvMessages == [c \in Conversations |-> IF c = "c1" THEN {"qa"} ELSE {"qb"}]
Questions == UNION {ConvMessages[c] : c \in Conversations}
StandaloneQuestions == {"sq"}       \* outputs of the question generator
Answers == {"ans"}                  \* outputs of the answer generator
SystemPrompts == {"default", "custom"}
ChunkTexts == {"T0", "T1", "S", "D", "A"}
QueryTexts == Questions \cup StandaloneQuestions \cup ChunkTexts
SearchQueries == {"qb", "T1"}       \* queries callers pass to similaritySearch

NoChain == "null"
Undefined == "undefined"
\* source.timestamp: absent, the text of a marker "[Ns]", or a label "M:SS"
NoTimestamp == [kind |-> "undefined"]
ErrorResponse == "I encountered an error while processing your message. Please try again."

VARIABLES
  vectorStore,   \* [DBs -> BOOLEAN]: this.vectorStore # null, per instance
  table,         \* rows of youtube_embeddings (shared by the instances)
  nextId,        \* next value of the bigserial id
  videosTbl,     \* rows of the videos table: [video_id, url]
  chain,         \* this.chain: NoChain or the prompt the chain was built with
  memory,        \* this.memory: sequence of [role, text]
  systemPrompt,  \* this.systemPrompt
  okAsks,        \* successful asks since the memory was last cleared
  channelsTbl,   \* channel ids of the rows of the channels table (D1)
  transcriptsTbl,\* rows of the transcripts table: [transcript_id, video_id]
  awaiting,      \* the call that is waiting for a collaborator's answer
  inflight,      \* [Procs -> call]: the handler or store call each request
                 \* is in the middle of, between two of its awaits
  last           \* what the last completed call returned to its caller

vars == <<vectorStore, table, nextId, videosTbl, chain, memory, systemPrompt,
          okAsks, channelsTbl, transcriptsTbl, awaiting, inflight, last>>

\* ----------------------------------------------------------------- helpers
Abs(x) == IF x < 0 THEN -x ELSE x
Min(a, b) == IF a < b THEN a ELSE b
Range(s) == {s[i] : i \in 1..Len(s)}

NoCall ==
  [op |-> "none", conv |-> "", arg |-> "", threw |-> FALSE, status |-> 0,
   outcome |-> "notCalled", response |-> "", sources |-> <<>>,
   outSources |-> <<>>, histBefore |-> <<>>, searchQuery |-> "",
   retrieved |-> <<>>, results |-> <<>>, k |-> 0, stored |-> <<>>,
   channelId |-> "", error |-> "none", comments |-> <<>>,
   links |-> <<>>, failed |-> {}, text |-> <<>>, chunks |-> <<>>,
   constructed |-> {}, directive |-> "",
   page |-> <<>>, maxVideos |-> 0, batches |-> <<>>, videos |-> <<>>]

\* The requests the server has in flight together, and a request slot
\* with no call in progress.
Procs == {"p1", "p2"}
Idle == [op |-> "idle"]

\* No call is waiting for a collaborator.
NoAwait == [op |-> "none", d |-> "", query |-> "", k |-> 0, settled |-> FALSE]

\* RecursiveCharacterTextSplitter({chunkSize: 1000, chunkOverlap: 200})
\* .createDocuments([text]): no document for an empty text, one per chunk
\* otherwise; "TT" stands for a text longer than the chunk size, every
\* other name for a short text with visible characters (SplitChars below is
\* the splitter character by character).
SplitText(t) ==
  CASE t = "" -> <<>>
    [] t = "TT" -> <<"T0", "T1">>
    [] OTHER -> <<t>>

\* The embedding of a text (OpenAIEmbeddings), as a point on a line, and the
\* cosine distance (<=>) of two embeddings; equal texts are at distance 0.
Emb(t) ==
  CASE t = "qa" -> 0
    [] t = "T0" -> 1
    [] t = "T1" -> 2
    [] t = "sq" -> 3
    [] t = "D" -> 4
    [] t = "qb" -> 5
    [] t = "A" -> 6
    [] t = "S" -> 8
    [] OTHER -> 9

Dist(q, t) == Abs(Emb(q) - Emb(t))

\* (variant of TopK that takes k rows without ordering them by distance)
TopKUnordered(tbl, q, k) ==
  LET n == Min(k, Cardinality(tbl)) IN
  {s \in [1..n -> tbl] : \A i, j \in 1..n : i < j => s[i] # s[j]}

\* match_documents: the rows ordered by distance to the query, the first k of
\* them; rows at equal distance come in an order the database chooses.
TopK(tbl, q, k) ==
  LET n == Min(k, Cardinality(tbl)) IN
  {s \in [1..n -> tbl] :
     /\ \A i, j \in 1..n : i < j => s[i] # s[j]
     /\ \A i, j \in 1..n : i < j => Dist(q, s[i].content) <= Dist(q, s[j].content)
     /\ \A r \in tbl \ Range(s) : \A i \in 1..n :
          Dist(q, s[i].content) <= Dist(q, r.content)}

\* createDocuments([text], [metadata]): one document per chunk, each with the
\* metadata object of the call and the chunk's position (loc).
\* A metadata key the call does not write reads as undefined.
DocsOf(text, metadata) ==
  LET chunks == SplitText(text) IN
  [i \in 1..Len(chunks) |->
     [content |-> chunks[i], videoId |-> metadata.videoId,
      channelId |-> metadata.channelId, videoTitle |-> metadata.videoTitle,
      channelName |-> metadata.channelName, url |-> metadata.url,
      viewCount |-> metadata.viewCount, uploadDate |-> metadata.uploadDate,
      likeCount |-> metadata.likeCount, author |-> metadata.author,
      source |-> metadata.source, loc |-> i]]

\* vectorStore.addDocuments(docs): one INSERT of all the documents, each row
\* taking the next bigserial id.
RowsOf(docs, nid) ==
  {[id |-> nid + i - 1, content |-> docs[i].content, videoId |-> docs[i].videoId,
    channelId |-> docs[i].channelId, videoTitle |-> docs[i].videoTitle,
    channelName |-> docs[i].channelName, url |-> docs[i].url,
    viewCount |-> docs[i].viewCount, uploadDate |-> docs[i].uploadDate,
    likeCount |-> docs[i].likeCount, author |-> docs[i].author,
    source |-> docs[i].source, loc |-> docs[i].loc] : i \in 1..Len(docs)}

\* ---------------------------------------- RecursiveCharacterTextSplitter
\* A text is a sequence of characters: a letter, a space, a newline.  The
\* splitter of langchain/text_splitter with its default separators and
\* keepSeparator; pieces and chunks are ranges [lo, hi] of the text.
Chars == {"a", " ", "\n"}
Texts == UNION {[1..n -> Chars] : n \in 0..MaxLen}
Separators == << <<"\n", "\n">>, <<"\n">>, <<" ">>, <<>> >>

SetMin(S) == CHOOSE x \in S : \A y \in S : x <= y
SetMax(S) == CHOOSE x \in S : \A y \in S : x >= y
PLen(p) == p.hi - p.lo + 1

\* sep occurs in t at position i, within lo..hi
MatchAt(t, i, hi, sep) ==
  /\ i + Len(sep) - 1 <= hi
  /\ \A j \in 1..Len(sep) : t[i + j - 1] = sep[j]

\* text.includes(s)
Includes(t, lo, hi, sep) == \E i \in lo..hi : MatchAt(t, i, hi, sep)

RECURSIVE PickSeparator(_, _, _, _)
\* The first separator, from index i on, that is "" or occurs in the text.
PickSeparator(t, lo, hi, i) ==
  IF i >= Len(Separators) \/ Separators[i] = <<>> \/ Includes(t, lo, hi, Separators[i])
    THEN i
    ELSE PickSeparator(t, lo, hi, i + 1)

\* splitOnSeparator: text.split(/(?=sep)/) cuts before every occurrence of
\* the separator after the first character, text.split("") before every
\* character; no piece is empty.
SplitOnSeparator(t, lo, hi, sep) ==
  LET starts == {lo} \cup {i \in (lo + 1)..hi : sep = <<>> \/ MatchAt(t, i, hi, sep)}
      nth(k) == CHOOSE x \in starts : Cardinality({y \in starts : y < x}) = k - 1
  IN [k \in 1..Cardinality(starts) |->
        [lo |-> nth(k),
         hi |-> IF k = Cardinality(starts) THEN hi ELSE nth(k + 1) - 1]]

IsSpace(c) == c \in {" ", "\n"}

\* (variant of JoinDocs that does not trim the joined text)
JoinDocsUntrimmed(t, cur) ==
  IF cur = <<>> THEN <<>> ELSE << [lo |-> cur[1].lo, hi |-> cur[Len(cur)].hi] >>

\* joinDocs: docs.join(separator).trim(), null for an empty result; with
\* keepSeparator the pieces are joined by "", so the text is a range.
JoinDocs(t, cur) ==
  IF cur = <<>> THEN <<>>
  ELSE LET vis == {i \in cur[1].lo..cur[Len(cur)].hi : ~IsSpace(t[i])} IN
       IF vis = {} THEN <<>> ELSE << [lo |-> SetMin(vis), hi |-> SetMax(vis)] >>

\* (variant of Pop that removes no piece)
PopNone(cur, total, len) == [cur |-> cur, total |-> total]

RECURSIVE Pop(_, _, _)
\* while (total > chunkOverlap || (total + _len > chunkSize && total > 0))
\*   { total -= currentDoc[0].length; currentDoc.shift(); }
Pop(cur, total, len) ==
  IF total > ChunkOverlap \/ (total + len > ChunkSize /\ total > 0)
    THEN Pop(Tail(cur), total - PLen(cur[1]), len)
    ELSE [cur |-> cur, total |-> total]

RECURSIVE Merge(_, _, _, _, _)
\* mergeSplits(splits, ""), from piece i on with currentDoc = cur.
Merge(t, splits, i, cur, total) ==
  IF i > Len(splits) THEN JoinDocs(t, cur)
  ELSE LET len == PLen(splits[i]) IN
       IF total + len > ChunkSize /\ Len(cur) > 0
         THEN LET kept == Pop(cur, total, len) IN
              JoinDocs(t, cur)
                \o Merge(t, splits, i + 1, Append(kept.cur, splits[i]), kept.total + len)
         ELSE Merge(t, splits, i + 1, Append(cur, splits[i]), total + len)

MergeSplits(t, splits) == IF splits = <<>> THEN <<>> ELSE Merge(t, splits, 1, <<>>, 0)

RECURSIVE SplitRange(_, _, _, _)
RECURSIVE Walk(_, _, _, _, _)
\* The loop of _splitText over the pieces from i on, with goodSplits = good
\* and the separator of index sepIdx in use.
Walk(t, pieces, i, good, sepIdx) ==
  IF i > Len(pieces) THEN MergeSplits(t, good)
  ELSE IF PLen(pieces[i]) < ChunkSize
    THEN Walk(t, pieces, i + 1, Append(good, pieces[i]), sepIdx)
    ELSE MergeSplits(t, good)
           \o (IF Separators[sepIdx] = <<>>
                THEN << pieces[i] >>
                ELSE SplitRange(t, pieces[i].lo, pieces[i].hi, sepIdx + 1))
           \o Walk(t, pieces, i + 1, <<>>, sepIdx)

\* _splitText(text, separators) for the range lo..hi of t and the
\* separators from index from on.
SplitRange(t, lo, hi, from) ==
  LET sepIdx == PickSeparator(t, lo, hi, from) IN
  Walk(t, SplitOnSeparator(t, lo, hi, Separators[sepIdx]), 1, <<>>, sepIdx)

\* splitText(text): the chunks of the text, in order.
SplitChars(t) == IF t = <<>> THEN <<>> ELSE SplitRange(t, 1, Len(t), 1)

\* ------------------------------------------------------------------- Init
Init ==
  /\ vectorStore = [d \in DBs |-> FALSE]
  /\ table = {}
  /\ nextId = 1
  /\ videosTbl = {}
  /\ chain = NoChain
  /\ memory = <<>>
  /\ systemPrompt = "default"
  /\ okAsks = 0
  /\ channelsTbl = {}
  /\ transcriptsTbl = {}
  /\ awaiting = NoAwait
  /\ inflight = [p \in Procs |-> Idle]
  /\ last = NoCall

\* A text handed to the text splitter.
InitSplit ==
  /\ vectorStore = [d \in DBs |-> FALSE]
  /\ table = {}
  /\ nextId = 1
  /\ videosTbl = {}
  /\ chain = NoChain
  /\ memory = <<>>
  /\ systemPrompt = "default"
  /\ okAsks = 0
  /\ channelsTbl = {}
  /\ transcriptsTbl = {}
  /\ awaiting = NoAwait
  /\ inflight = [p \in Procs |-> Idle]
  /\ \E t \in Texts : last = [NoCall EXCEPT !.op = "text", !.text = t]

\* textSplitter.createDocuments([text], ...): one document per chunk.
CreateDocuments ==
  /\ last.op = "text"
  /\ last' = [last EXCEPT !.op = "createDocuments", !.chunks = SplitChars(last.text)]
  /\ UNCHANGED <<vectorStore, table, nextId, videosTbl, chain, memory, systemPrompt,
                 okAsks, channelsTbl, transcriptsTbl, awaiting, inflight>>

\* ------------------------------------------------- VectorDatabase actions
\* VectorDatabase.initialize(): sets this.vectorStore, or throws and leaves it.
VDBInitialize(d) ==
  \E ok \in BOOLEAN :
    /\ vectorStore' = [vectorStore EXCEPT ![d] = IF ok THEN TRUE ELSE @]
    /\ last' = [NoCall EXCEPT !.op = "vdbInitialize", !.arg = d, !.threw = ~ok,
                              !.constructed = IF ok THEN {"vectorStore"} ELSE {}]
    /\ UNCHANGED <<table, nextId, videosTbl, chain, memory, systemPrompt, okAsks>>
    /\ UNCHANGED <<channelsTbl, transcriptsTbl, awaiting, inflight>>

\* The documents processVideoContent adds, in the order it adds them:
\* transcript chunks, description chunks, the title document.
ContentGroups(videoId, channelId, title, transcript, description, metadata) ==
  LET md(source) ==
        [videoId |-> videoId, channelId |-> channelId, videoTitle |-> title,
         channelName |-> metadata.channelName, url |-> metadata.url,
         viewCount |-> metadata.viewCount, uploadDate |-> metadata.uploadDate,
         likeCount |-> Undefined, author |-> Undefined, source |-> source]
  IN << DocsOf(transcript, md("transcript")),
        DocsOf(description, md("description")),
        DocsOf(title, md("title")) >>

RECURSIVE AddGroups(_, _, _, _)
\* addDocuments for groups[1..upTo] (empty groups are skipped by the code's
\* if (transcript) / if (description) / titleDoc.length > 0 tests).
AddGroups(groups, upTo, tbl, nid) ==
  IF upTo = 0 THEN [tbl |-> tbl, nid |-> nid]
  ELSE LET prev == AddGroups(groups, upTo - 1, tbl, nid)
           g == groups[upTo] IN
       [tbl |-> prev.tbl \cup RowsOf(g, prev.nid), nid |-> prev.nid + Len(g)]

\* What processVideoContent does with the store handle it finds.
StoreOpen(d) == vectorStore[d]

\* VectorDatabase.processVideoContent: failAt = 0 is a normal return; failAt =
\* g in 1..3 is addDocuments of group g throwing (embedding or insert error),
\* after the groups before it were stored.
ProcessVideoContent(d, videoId, title, transcript, description, failAt) ==
  \E channelId \in ChannelIds, channelName \in ChannelNames, url \in MetaUrls,
     viewCount \in ViewCounts, uploadDate \in UploadDates :
    LET groups == ContentGroups(videoId, channelId, title, transcript, description,
                                [channelName |-> channelName, url |-> url,
                                 viewCount |-> viewCount, uploadDate |-> uploadDate])
        done == IF failAt = 0 THEN 3 ELSE failAt - 1
        res == AddGroups(groups, done, table, nextId)
    IN
    /\ failAt # 0 => (StoreOpen(d) /\ Len(groups[failAt]) > 0)
    /\ IF StoreOpen(d)
         THEN /\ res.nid <= MaxIds + 1
              /\ table' = res.tbl
              /\ nextId' = res.nid
         ELSE UNCHANGED <<table, nextId>>
    /\ last' = [NoCall EXCEPT !.op = "processVideoContent", !.arg = videoId,
                              !.threw = (failAt # 0),
                              !.error = IF failAt # 0 THEN "Error" ELSE "none",
                              !.channelId = channelId,
                              !.stored = groups[1] \o groups[2] \o groups[3]]
    /\ UNCHANGED <<vectorStore, videosTbl, chain, memory, systemPrompt, okAsks>>
    /\ UNCHANGED <<channelsTbl, transcriptsTbl, awaiting, inflight>>

\* `${comment.author}: ${comment.content}`
CommentText(author, content) ==
  CASE author = "bob" /\ content = "hi" -> "bob: hi"
    [] author = "bob" /\ content = "yo" -> "bob: yo"
    [] author = "bob" /\ content = "" -> "bob: "
    [] OTHER -> "other: text"

\* (variant of CommentSkipped that skips no comment)
CommentSkippedNever(comment) == FALSE

\* if (!comment.content) continue;
CommentSkipped(comment) == comment.content = ""

\* The documents processComments creates, one group per comment of the
\* list, in the order of the list; a skipped comment has an empty group.
CommentGroups(comments, videoId, channelId, title, metadata) ==
  [i \in 1..Len(comments) |->
     IF CommentSkipped(comments[i]) THEN <<>>
     ELSE DocsOf(CommentText(comments[i].author, comments[i].content),
                 [videoId |-> videoId, channelId |-> channelId, videoTitle |-> title,
                  channelName |-> metadata.channelName, url |-> metadata.url,
                  viewCount |-> Undefined, uploadDate |-> Undefined,
                  likeCount |-> comments[i].likeCount,
                  author |-> comments[i].author, source |-> "comments"])]

RECURSIVE Flatten(_, _)
\* The documents of groups[1..upTo], in order.
Flatten(groups, upTo) ==
  IF upTo = 0 THEN <<>> ELSE Flatten(groups, upTo - 1) \o groups[upTo]

\* VectorDatabase.processComments: given = FALSE is a missing list; failAt =
\* 0 is a normal return; failAt = g is addDocuments of comment g throwing,
\* after the comments before it were stored and before the comments after it
\* are rendered.
ProcessComments(d, videoId, title, given, comments, failAt) ==
  \E channelId \in ChannelIds, channelName \in ChannelNames, url \in MetaUrls :
    LET groups == IF given
                    THEN CommentGroups(comments, videoId, channelId, title,
                                       [channelName |-> channelName, url |-> url])
                    ELSE <<>>
        done == IF failAt = 0 THEN Len(groups) ELSE failAt - 1
        made == IF failAt = 0 THEN Len(groups) ELSE failAt
        res == AddGroups(groups, done, table, nextId)
    IN
    /\ ~given => comments = <<>>
    /\ failAt # 0 => (StoreOpen(d) /\ failAt <= Len(groups) /\ Len(groups[failAt]) > 0)
    /\ IF StoreOpen(d)
         THEN /\ res.nid <= MaxIds + 1
              /\ table' = res.tbl
              /\ nextId' = res.nid
         ELSE UNCHANGED <<table, nextId>>
    /\ last' = [NoCall EXCEPT !.op = "processComments", !.arg = videoId,
                              !.threw = (failAt # 0),
                              !.error = IF failAt # 0 THEN "Error" ELSE "none",
                              !.channelId = channelId,
                              !.comments = comments,
                              !.stored = Flatten(groups, made)]
    /\ UNCHANGED <<vectorStore, videosTbl, chain, memory, systemPrompt, okAsks>>
    /\ UNCHANGED <<channelsTbl, transcriptsTbl, awaiting, inflight>>

\* VectorDatabase.similaritySearch(query, k): initializes the store when
\* there is none, then queries it; the embedding call or the rpc may throw.
\* (variant of SearchResults in which a call that found no store handle
\* returns the empty list)
SearchResultsSkipInit(had, tbl, query, k) ==
  IF had THEN TopK(tbl, query, k) ELSE {<<>>}

\* What a search that does not throw returns, had being whether the call
\* found a store handle: without one it awaits initialize(), which sets the
\* handle or throws, so the query runs in both cases and the final
\* "return []" is never reached.
SearchResults(had, tbl, query, k) == TopK(tbl, query, k)

SearchOutcome(d, query, k) ==
  \E outcome \in {"ok", "initFail", "searchFail"} :
    /\ outcome = "initFail" => ~vectorStore[d]
    /\ vectorStore' = [vectorStore EXCEPT ![d] = IF outcome = "initFail" THEN @ ELSE TRUE]
    /\ \E res \in (IF outcome = "ok" THEN SearchResults(vectorStore[d], table, query, k)
                                     ELSE {<<>>}) :
         last' = [NoCall EXCEPT !.op = "similaritySearch", !.arg = query, !.k = k,
                                !.threw = (outcome # "ok"), !.results = res,
                                !.constructed = IF vectorStore[d] \/ outcome = "initFail"
                                                  THEN {} ELSE {"vectorStore"}]
    /\ UNCHANGED <<table, nextId, videosTbl, chain, memory, systemPrompt, okAsks>>
    /\ UNCHANGED <<channelsTbl, transcriptsTbl, inflight>>

\* The call as one step, from its start to its return.
SimilaritySearch(d, query, k) ==
  SearchOutcome(d, query, k) /\ UNCHANGED awaiting

\* The same call step by step.  similaritySearch awaits initialize() and
\* vectorStore.similaritySearch(query, k) (the embedding request and the
\* match_documents rpc) with no timer, race or abort signal around them:
\* SearchAwait is the call reaching its await, CollaboratorSettles the
\* collaborator answering or failing, SearchResume the continuation.
SearchAwait(d, query, k) ==
  /\ awaiting = NoAwait
  /\ awaiting' = [op |-> "similaritySearch", d |-> d, query |-> query, k |-> k,
                  settled |-> FALSE]
  /\ UNCHANGED <<vectorStore, table, nextId, videosTbl, chain, memory, systemPrompt,
                 okAsks, channelsTbl, transcriptsTbl, inflight, last>>

CollaboratorSettles ==
  /\ awaiting # NoAwait
  /\ ~awaiting.settled
  /\ awaiting' = [awaiting EXCEPT !.settled = TRUE]
  /\ UNCHANGED <<vectorStore, table, nextId, videosTbl, chain, memory, systemPrompt,
                 okAsks, channelsTbl, transcriptsTbl, inflight, last>>

SearchResume ==
  /\ awaiting.op = "similaritySearch"
  /\ awaiting.settled
  /\ SearchOutcome(awaiting.d, awaiting.query, awaiting.k)
  /\ awaiting' = NoAwait

\* The rows a DELETE ... WHERE metadata->>videoId = v leaves, when the
\* statement is executed.
DeleteWhereVideo(tbl, v) == {r \in tbl : r.videoId # v}

\* VectorDatabase.deleteVideoVectors(videoId): awaits the supabase-js query
\* and drops its result.  supabase-js reports a failed statement in the
\* {error} field of the result instead of throwing, so the method returns
\* normally whether or not the statement was executed.
DeleteVideoVectors(d, v) ==
  \E executed \in BOOLEAN :
    /\ table' = IF executed THEN DeleteWhereVideo(table, v) ELSE table
    /\ last' = [NoCall EXCEPT !.op = "deleteVideoVectors", !.arg = v]
    /\ UNCHANGED <<vectorStore, nextId, videosTbl, chain, memory, systemPrompt, okAsks>>
    /\ UNCHANGED <<channelsTbl, transcriptsTbl, awaiting, inflight>>

\* YouTubeDatabase.storeVideo: update the row of video_id when getVideo finds
\* one, insert it otherwise.
StoreVideo(v, url) ==
    /\ videosTbl' = {r \in videosTbl : r.video_id # v} \cup {[video_id |-> v, url |-> url]}
    /\ last' = [NoCall EXCEPT !.op = "storeVideo", !.arg = v]
    /\ UNCHANGED <<vectorStore, table, nextId, chain, memory, systemPrompt, okAsks>>
    /\ UNCHANGED <<channelsTbl, transcriptsTbl, awaiting, inflight>>

\* ------------------------------------------- POST /api/process-channel
\* scraper.extractChannelId(channelUrl); null for what is no channel url.
ExtractChannelId(channelUrl) ==
  IF channelUrl \in IngestChannels THEN channelUrl ELSE "null"

\* scrapeVideoLinks: the links of the channel's videos page, each named by
\* the id of its video.
VideoLinks(channelId) ==
  CASE channelId = "ch1" -> <<"v1", "v2">>
    [] channelId = "ch2" -> <<"v3", "v4">>
    [] OTHER -> <<>>

\* processVideoBatch: scrapeVideo of each link in a try/catch of its own; a
\* link whose scrape throws is left out and the batch goes on.
ProcessVideoBatch(links, scrapeFailed) ==
  SelectSeq(links, LAMBDA v : v \notin scrapeFailed)

\* The rows of the videos table after storeVideo of v.
VideoStored(tbl, v, url) ==
  {r \in tbl : r.video_id # v} \cup {[video_id |-> v, url |-> url]}

\* getTranscript(videoId) finds a row.
HasTranscript(tbl, v) == \E r \in tbl : r.video_id = v

\* INSERT INTO transcripts: transcript_id is INTEGER PRIMARY KEY
\* AUTOINCREMENT, video_id has no UNIQUE constraint.
TranscriptInserted(tbl, v) ==
  tbl \cup {[transcript_id |-> Cardinality(tbl) + 1, video_id |-> v]}

\* The rows of the transcripts table after storeTranscript of v run from
\* its SELECT to its UPDATE or INSERT with no other statement in between.
TranscriptStored(tbl, v) ==
  IF HasTranscript(tbl, v) THEN tbl ELSE TranscriptInserted(tbl, v)

\* processVideoContent of the route for one video, on the route's instance.
VideoIndexed(st, v, channelId, url) ==
  IF StoreOpen(IngestDb)
    THEN AddGroups(ContentGroups(v, channelId, "A", MockTranscript, "",
                                 [channelName |-> "cn1", url |-> url,
                                  viewCount |-> "1000", uploadDate |-> "2024-01-01"]),
                   3, st.tbl, st.nid)
    ELSE [tbl |-> st.tbl, nid |-> st.nid]

RECURSIVE IngestVideos(_, _, _, _, _)
\* The body of the route's for loop run to its end for videos[1..upTo]:
\* storeVideo, fetchTranscript, storeTranscript, processVideoContent.
IngestVideos(videos, upTo, st, channelId, url) ==
  IF upTo = 0 THEN st
  ELSE LET prev == IngestVideos(videos, upTo - 1, st, channelId, url)
           idx == VideoIndexed(prev, videos[upTo], channelId, url)
       IN [videos |-> VideoStored(prev.videos, videos[upTo], url),
           transcripts |-> TranscriptStored(prev.transcripts, videos[upTo]),
           tbl |-> idx.tbl, nid |-> idx.nid]

\* (variant of ChannelExists that never finds the channel)
ChannelExistsNever(tbl, channelId) == FALSE

\* existingChannel = await db.getChannel(channelId), tested for truth.
ChannelExists(tbl, channelId) == channelId \in tbl

\* POST /api/process-channel.  One try block around the whole handler:
\*   400 without a channelUrl or without a channel id in it;
\*   200 "already processed" when the channels table has the channel;
\*   scrapeChannelWithVideos throws when the channel page or the videos
\*     page fails (500); the scrape of a single video fails silently;
\*   storeChannel, and storeVideo / storeTranscript of the video at failAt,
\*     throw on a database error (500) with the writes before it kept.
ProcessChannelPOST(channelUrl) ==
  \E outcome \in {"badRequest", "alreadyProcessed", "scrapeFailed",
                  "storeChannelFailed", "videoFailed", "processed"},
     scrapeFailed \in SUBSET Range(VideoLinks(ExtractChannelId(channelUrl))),
     failAt \in 0..Len(VideoLinks(ExtractChannelId(channelUrl))),
     stage \in {"none", "storeVideo", "storeTranscript"},
     url \in Urls :
    LET channelId == ExtractChannelId(channelUrl)
        links == VideoLinks(channelId)
        reachedLoop == outcome \in {"videoFailed", "processed"}
        videos == IF reachedLoop THEN ProcessVideoBatch(links, scrapeFailed) ELSE <<>>
        done == IF outcome = "processed" THEN Len(videos)
                ELSE IF outcome = "videoFailed" THEN failAt - 1 ELSE 0
        st == IngestVideos(videos, done,
                           [videos |-> videosTbl, transcripts |-> transcriptsTbl,
                            tbl |-> table, nid |-> nextId],
                           channelId, url)
    IN
    /\ (outcome = "badRequest") <=> (channelId = "null")
    /\ channelId # "null" => ((outcome = "alreadyProcessed") <=> ChannelExists(channelsTbl, channelId))
    /\ ~reachedLoop => scrapeFailed = {}
    /\ (outcome = "videoFailed") <=> (failAt # 0)
    /\ (outcome = "videoFailed") <=> (stage # "none")
    /\ failAt <= Len(videos)
    /\ st.nid <= MaxIds + 1
    /\ channelsTbl' = IF reachedLoop THEN channelsTbl \cup {channelId} ELSE channelsTbl
    /\ videosTbl' = IF stage = "storeTranscript"
                      THEN VideoStored(st.videos, videos[failAt], url)
                      ELSE st.videos
    /\ transcriptsTbl' = st.transcripts
    /\ table' = st.tbl
    /\ nextId' = st.nid
    /\ last' = [NoCall EXCEPT
                  !.op = "processChannelPOST", !.arg = channelUrl,
                  !.outcome = outcome,
                  !.status = IF outcome = "badRequest" THEN 400
                             ELSE IF outcome \in {"alreadyProcessed", "processed"} THEN 200
                             ELSE 500,
                  !.links = IF reachedLoop THEN links ELSE <<>>,
                  !.failed = IF reachedLoop
                               THEN scrapeFailed \cup
                                    (IF failAt # 0 THEN {videos[failAt]} ELSE {})
                               ELSE {}]
    /\ UNCHANGED <<vectorStore, chain, memory, systemPrompt, okAsks, awaiting, inflight>>

\* ----------------------------------------------- ConversationalAI actions
\* The citation processMessage builds from a source document's metadata;
\* processVideoContent writes no timestamp into the metadata.
Citation(doc) ==
  [videoId |-> doc.videoId, videoTitle |-> doc.videoTitle,
   channelName |-> doc.channelName, url |-> doc.url, source |-> doc.source,
   timestamp |-> NoTimestamp]

\* sourceDocuments.map(doc => ({...}))
Citations(docs) == [i \in 1..Len(docs) |-> Citation(docs[i])]

\* (variant of MapSet that appends whether or not the key is present)
MapSetAppend(m, item) == Append(m, item)

\* Map.prototype.set with key item.videoId, the Map given as its values in
\* insertion order: a new key is appended, an existing key keeps its place
\* and takes the new value.
MapSet(m, item) ==
  IF \E i \in 1..Len(m) : m[i].videoId = item.videoId
    THEN [i \in 1..Len(m) |-> IF m[i].videoId = item.videoId THEN item ELSE m[i]]
    ELSE Append(m, item)

RECURSIVE MapFrom(_, _)
\* new Map(entries): the first n entries set in order.
MapFrom(srcs, n) ==
  IF n = 0 THEN <<>> ELSE MapSet(MapFrom(srcs, n - 1), srcs[n])

\* Array.from(new Map(sources.map(item => [item.videoId, item])).values())
UniqueSources(srcs) == MapFrom(srcs, Len(srcs))

\* (variant of SaveContext that stores the answer without the question)
SaveContextAnswerOnly(mem, q, text) ==
  mem \o <<[role |-> "assistant", text |-> text]>>

\* BufferMemory.saveContext with inputKey 'question' and outputKey 'text':
\* the human message is the question of the call, the AI message its text.
SaveContext(mem, q, text) ==
  mem \o <<[role |-> "user", text |-> q], [role |-> "assistant", text |-> text]>>

\* (variant of ChainCallMemory that saves the exchange of a failed call too)
ChainCallMemoryAlways(mem, q, text, ok) ==
  mem \o <<[role |-> "user", text |-> q], [role |-> "assistant", text |-> text]>>

\* chain.call: the memory is saved after the chain's _call has returned, and
\* not at all when _call throws.
ChainCallMemory(mem, q, text, ok) ==
  IF ok THEN SaveContext(mem, q, text) ELSE mem

\* (variant of NeedsRewrite that runs the question generator on every call)
NeedsRewriteAlways(hist) == TRUE

\* ConversationalRetrievalQAChain._call: the question generator runs only
\* when the chat history string is non-empty.
NeedsRewrite(hist) == Len(hist) > 0

\* The question that goes to the retriever: the generator's output, or the
\* question of the call as it is when the generator does not run.
GeneratedQuestion(hist, q, newQ) ==
  IF NeedsRewrite(hist) THEN newQ ELSE q

\* ConversationalAI.initialize(): vectorDb.initialize(), then fromLLM with
\* this.memory and the current systemPrompt.  "dbFail": vectorDb.initialize
\* throws; "chainFail": building the chain throws.  Both are rethrown.
\* The objects the call constructs (new handles replacing the old ones):
\* initialize() has no test of this.chain or of vectorDb.vectorStore.
Constructed(initOutcome) ==
  CASE initOutcome = "ok" -> {"vectorStore", "chain"}
    [] initOutcome = "chainFail" -> {"vectorStore"}
    [] OTHER -> {}

\* (variant of MemoryAfterInitialize in which the new chain starts with an
\* empty memory)
MemoryAfterInitializeFresh(hist) == <<>>

\* fromLLM(..., {memory: this.memory, ...}): the new chain reads and writes
\* the BufferMemory the engine was constructed with.
MemoryAfterInitialize(hist) == hist

EngineInitialize ==
  \E outcome \in {"ok", "dbFail", "chainFail"} :
    /\ vectorStore' = [vectorStore EXCEPT ![EngineDb] = IF outcome = "dbFail" THEN @ ELSE TRUE]
    /\ chain' = IF outcome = "ok" THEN systemPrompt ELSE chain
    /\ memory' = IF outcome = "ok" THEN MemoryAfterInitialize(memory) ELSE memory
    /\ last' = [NoCall EXCEPT !.op = "initialize", !.threw = (outcome # "ok"),
                              !.constructed = Constructed(outcome)]
    /\ UNCHANGED <<table, nextId, videosTbl, systemPrompt, okAsks>>
    /\ UNCHANGED <<channelsTbl, transcriptsTbl, awaiting, inflight>>

\* ConversationalAI.clearHistory()
ClearHistory ==
  /\ memory' = <<>>
  /\ okAsks' = 0
  /\ last' = [NoCall EXCEPT !.op = "clearHistory"]
  /\ UNCHANGED <<vectorStore, table, nextId, videosTbl, chain, systemPrompt>>
  /\ UNCHANGED <<channelsTbl, transcriptsTbl, awaiting, inflight>>

\* (variant of ChainAfterSetPrompt that keeps the chain built before)
ChainAfterSetPromptKept(c) == c

\* this.chain = null
ChainAfterSetPrompt(c) == NoChain

\* ConversationalAI.setSystemPrompt(prompt)
SetSystemPrompt(p) ==
    /\ systemPrompt' = p
    /\ chain' = ChainAfterSetPrompt(chain)
    /\ last' = [NoCall EXCEPT !.op = "setSystemPrompt", !.arg = p]
    /\ UNCHANGED <<vectorStore, table, nextId, videosTbl, memory, okAsks>>
    /\ UNCHANGED <<channelsTbl, transcriptsTbl, awaiting, inflight>>

\* The points at which processMessage can fail.  "initDbFail" and
\* "initChainFail" are the two failures of this.initialize() (called before
\* the try block when there is no chain); the other three are failures
\* inside chain.call (inside the try block).
InitFailures == {"initDbFail", "initChainFail"}
ChainFailures == {"rewriteFail", "retrievalFail", "generationFail"}
PMOutcomes == {"ok"} \cup InitFailures \cup ChainFailures

\* `${minutes}:${remainingSeconds.toString().padStart(2, '0')}` for whole
\* seconds: the minutes and the two digits of the remaining seconds.
TimestampLabel(seconds) ==
  [kind |-> "label", min |-> seconds \div 60,
   tens |-> (seconds % 60) \div 10, ones |-> (seconds % 60) % 10]

\* db.getVideo(videoId) of the chat route's enrichment loop: the url of the
\* citation becomes the url of the videos row, when there is one.
\* When the citation has a timestamp that holds a marker "[Ns]", the
\* timestamp becomes the label of N and "&t=N" is added to a url without one.
Enrich(src) ==
  IF \E r \in videosTbl : r.video_id = src.videoId
    THEN LET u == (CHOOSE r \in videosTbl : r.video_id = src.videoId).url IN
         IF src.timestamp.kind = "marker"
           THEN [src EXCEPT !.timestamp = TimestampLabel(src.timestamp.seconds),
                            !.url = IF u.t = NoT
                                      THEN [u EXCEPT !.t = src.timestamp.seconds]
                                      ELSE u]
           ELSE [src EXCEPT !.url = u]
    ELSE src

\* POST /api/chat for a request of conversation c.  The handler reads
\* message (channelId is read and not used), logs the access, calls
\* conversationalAI.processMessage(message) on the module-level instance and
\* completes the returned sources from the videos table.
\*   routeFail "logAccess": db.logAccess throws; "getVideo": db.getVideo
\*   throws in the enrichment loop; both end in the handler's catch (500).
ChatPOST(c) ==
  \E msg \in ConvMessages[c] \cup {""}, routeFail \in {"none", "logAccess", "getVideo"},
     outcome \in PMOutcomes \cup {"notCalled"}, newQ \in StandaloneQuestions,
     ans \in Answers :
    LET called == (msg # "" /\ routeFail # "logAccess")
        needInit == (chain = NoChain)
        reachedChain == called /\ outcome \notin InitFailures
        query == GeneratedQuestion(memory, msg, newQ)
        searched == reachedChain /\ outcome # "rewriteFail"
        newMem == ChainCallMemory(IF needInit THEN MemoryAfterInitialize(memory) ELSE memory,
                                  msg, ans, outcome = "ok")
    IN
    /\ called <=> (outcome # "notCalled")
    /\ msg = "" => routeFail = "none"
    /\ outcome \in InitFailures => needInit
    /\ outcome = "rewriteFail" => NeedsRewrite(memory)
    /\ reachedChain => Len(newMem) <= MaxTurns
    /\ vectorStore' = [vectorStore EXCEPT ![EngineDb] =
                         IF called /\ needInit /\ outcome # "initDbFail" THEN TRUE ELSE @]
    /\ chain' = IF reachedChain /\ needInit THEN systemPrompt ELSE chain
    /\ memory' = IF reachedChain THEN newMem ELSE memory
    /\ okAsks' = IF outcome = "ok" THEN okAsks + 1 ELSE okAsks
    /\ \E docs \in (IF searched /\ outcome # "retrievalFail"
                      THEN TopK(table, query, RetrieverK) ELSE {<<>>}) :
         LET sources == IF outcome = "ok" THEN UniqueSources(Citations(docs)) ELSE <<>>
             response == IF outcome = "ok" THEN ans ELSE ErrorResponse
             threw == outcome \in InitFailures
             failed500 == routeFail # "none" \/ threw
         IN
         /\ routeFail = "getVideo" => Len(sources) > 0
         /\ last' = [NoCall EXCEPT
                       !.op = "chatPOST", !.conv = c, !.arg = msg,
                       !.outcome = outcome, !.threw = threw,
                       !.status = IF msg = "" THEN 400 ELSE IF failed500 THEN 500 ELSE 200,
                       !.response = IF called /\ ~threw THEN response ELSE "",
                       !.sources = sources,
                       !.outSources = IF failed500 THEN <<>>
                                      ELSE [i \in 1..Len(sources) |-> Enrich(sources[i])],
                       !.histBefore = memory,
                       !.constructed =
                         IF called /\ needInit
                           THEN Constructed(CASE outcome = "initDbFail" -> "dbFail"
                                              [] outcome = "initChainFail" -> "chainFail"
                                              [] OTHER -> "ok")
                           ELSE {},
                       !.directive = IF reachedChain
                                       THEN (IF needInit THEN systemPrompt ELSE chain)
                                       ELSE "",
                       !.searchQuery = IF searched THEN query ELSE "",
                       !.retrieved = docs]
    /\ UNCHANGED <<table, nextId, videosTbl, systemPrompt>>
    /\ UNCHANGED <<channelsTbl, transcriptsTbl, awaiting, inflight>>

\* ---------------------------------------------------------- specifications
\* The Vector Index on its own: the public methods of both instances.
NextIndex ==
  \/ \E d \in DBs : VDBInitialize(d)
  \/ \E d \in DBs, v \in VideoIds, title \in Titles, transcript \in Transcripts,
        description \in Descriptions, failAt \in 0..3 :
       ProcessVideoContent(d, v, title, transcript, description, failAt)
  \/ \E d \in DBs, query \in SearchQueries, k \in 1..MaxK : SimilaritySearch(d, query, k)
  \/ \E d \in DBs, v \in VideoIds : DeleteVideoVectors(d, v)

SpecIndex == Init /\ [][NextIndex]_vars

\* The conversation engine behind the chat route, over an index that is
\* being filled with the titles, descriptions and short transcripts of videos.
Next ==
  \/ \E v \in VideoIds, transcript \in ShortTranscripts, description \in Descriptions :
       ProcessVideoContent(EngineDb, v, "A", transcript, description, 0)
  \/ \E v \in EnrichedVideoIds, url \in Urls : StoreVideo(v, url)
  \/ EngineInitialize
  \/ ClearHistory
  \/ \E p \in SystemPrompts : SetSystemPrompt(p)
  \/ \E c \in Conversations : ChatPOST(c)

Spec == Init /\ [][Next]_vars
\* ------------------------------------------------------------------ claims
IsAsk == last.op = "chatPOST" /\ last.outcome # "notCalled"

\* C1: processMessage never surfaces an exception: whatever fails (pipeline
\* construction, rewriting, retrieval, generation), also on the first call,
\* it returns the fixed apologetic response with an empty sources list.
C1_AskNeverThrows ==
  IsAsk =>
    /\ ~last.threw
    /\ last.outcome # "ok" => (last.response = ErrorResponse /\ last.sources = <<>>)

\* C2: a failed ask leaves the memory as it was before the call.
C2_FailedAskKeepsMemory ==
  (IsAsk /\ last.outcome # "ok") => memory = last.histBefore

C2_Witness ==
  /\ IsAsk
  /\ last.outcome \in ChainFailures
  /\ last.response = ErrorResponse
  /\ Len(last.histBefore) > 0
  /\ memory = last.histBefore

\* C3: no two citations of a returned sources list share a videoId.
C3_OneCitationPerVideo ==
  IsAsk =>
    /\ \A i, j \in 1..Len(last.sources) :
         i < j => last.sources[i].videoId # last.sources[j].videoId
    /\ \A i, j \in 1..Len(last.outSources) :
         i < j => last.outSources[i].videoId # last.outSources[j].videoId

C3_Witness ==
  /\ IsAsk /\ last.outcome = "ok"
  /\ Len(last.retrieved) = 2
  /\ last.retrieved[1].videoId = last.retrieved[2].videoId
  /\ last.retrieved[1].source # last.retrieved[2].source
  /\ Len(last.sources) = 1
  /\ last.sources[1].videoId = last.retrieved[1].videoId

\* The citations of the first chunk of each video, in rank order.
FirstOccurrences(srcs) ==
  LET keep == {i \in 1..Len(srcs) : \A j \in 1..(i - 1) : srcs[j].videoId # srcs[i].videoId}
      F[n \in 0..Len(srcs)] ==
        IF n = 0 THEN <<>>
        ELSE IF n \in keep THEN Append(F[n - 1], srcs[n]) ELSE F[n - 1]
  IN F[Len(srcs)]

\* C4: deduplication keeps, for each videoId, the citation of the
\* highest-ranked retrieved chunk of that video, in retrieval-rank order.
C4_FirstOccurrenceWins ==
  (IsAsk /\ last.outcome = "ok") =>
    last.sources = FirstOccurrences(Citations(last.retrieved))

\* C5: a successful ask appends the user turn with the question and then the
\* assistant turn with the returned answer; after n successful asks since
\* the last reset the history holds 2n turns, alternating user/assistant.
C5_TwoTurnsPerAsk ==
  /\ Len(memory) = 2 * okAsks
  /\ \A i \in 1..Len(memory) :
       memory[i].role = (IF i % 2 = 1 THEN "user" ELSE "assistant")
  /\ (IsAsk /\ last.outcome = "ok") =>
       memory = last.histBefore \o <<[role |-> "user", text |-> last.arg],
                                     [role |-> "assistant", text |-> last.response]>>

C5_Witness ==
  /\ IsAsk /\ last.outcome = "ok"
  /\ okAsks = 2
  /\ Len(memory) = 4
  /\ memory[3].text = last.arg
  /\ memory[1].text # memory[3].text

\* C6: with an empty history the question sent to the index search is the
\* original question; a rewritten question is used, and the rewrite step can
\* fail, only with a non-empty history.
C6_EmptyHistoryNoRewrite ==
  IsAsk =>
    /\ (last.histBefore = <<>> /\ last.searchQuery # "") => last.searchQuery = last.arg
    /\ last.searchQuery \in StandaloneQuestions => last.histBefore # <<>>
    /\ last.outcome = "rewriteFail" => last.histBefore # <<>>

C6_Witness ==
  /\ IsAsk /\ last.outcome = "ok"
  /\ last.histBefore = <<>>
  /\ last.searchQuery = last.arg
  /\ Len(last.retrieved) > 0

\* C7: the history used for a request of one conversation never contains a
\* turn of another conversation.
C7_ConversationsIsolated ==
  IsAsk =>
    \A i \in 1..Len(last.histBefore) :
      last.histBefore[i].role = "user" =>
        last.histBefore[i].text \in ConvMessages[last.conv]

\* C8: after deleteVideoVectors(v) has returned, no search (any query, any
\* k) returns a chunk of video v.
C8_DeletedVideoNotSearchable ==
  last.op = "deleteVideoVectors" =>
    \A q \in QueryTexts, k \in 1..MaxK : \A s \in TopK(table, q, k) :
      \A i \in 1..Len(s) : s[i].videoId # last.arg

\* C9: after processVideoContent has returned without error, a search with
\* the exact text of any chunk of the call returns that chunk in its top k.
C9_UpsertThenSearchFinds ==
  (last.op = "processVideoContent" /\ ~last.threw) =>
    \A n \in 1..Len(last.stored) :
      \A s \in TopK(table, last.stored[n].content, MaxK) :
        \E i \in 1..Len(s) :
          /\ s[i].content = last.stored[n].content
          /\ s[i].videoId = last.stored[n].videoId
          /\ s[i].source = last.stored[n].source
          /\ s[i].loc = last.stored[n].loc

\* C10: the index holds at most one live entry per (videoId, sourceKind,
\* chunk offset), however often a video's content is upserted.
C10_NoDuplicateLiveEntries ==
  \A r1, r2 \in table :
    (r1.videoId = r2.videoId /\ r1.source = r2.source /\ r1.loc = r2.loc) => r1 = r2
\* C11: processVideoContent is all-or-nothing for its caller: when it
\* throws, none of the call's chunks has become a row; when it returns
\* normally, every chunk of the call has.
C11_BatchAllOrNothing ==
  [][ last'.op = "processVideoContent" =>
        IF last'.threw
          THEN table' = table
          ELSE /\ table \subseteq table'
               /\ Cardinality(table' \ table) = Len(last'.stored) ]_vars

\* C14: similaritySearch(query, k) returns at most k rows, ordered by
\* non-increasing similarity (non-decreasing distance) to the query.
C14_SearchBoundedAndOrdered ==
  last.op = "similaritySearch" =>
    /\ Len(last.results) <= last.k
    /\ \A i, j \in 1..Len(last.results) :
         i < j => Dist(last.arg, last.results[i].content)
                    <= Dist(last.arg, last.results[j].content)

C14_Witness ==
  /\ last.op = "similaritySearch" /\ ~last.threw
  /\ last.k = 1
  /\ Len(last.results) = 1
  /\ \E r \in table : Dist(last.arg, r.content) > Dist(last.arg, last.results[1].content)
\* The Vector Index of the chat route with its search taken step by step,
\* over the titles and descriptions of videos, which either instance adds
\* to the one table.  The continuation
\* of a settled await always runs (the event loop); nothing makes the
\* collaborator settle.
NextSearch ==
  \/ \E d \in DBs : VDBInitialize(d)
  \/ \E d \in DBs, v \in VideoIds, description \in Descriptions :
       ProcessVideoContent(d, v, "A", "", description, 0)
  \/ \E query \in SearchQueries, k \in 1..MaxK : SearchAwait(EngineDb, query, k)
  \/ CollaboratorSettles
  \/ SearchResume

SpecSearch == Init /\ [][NextSearch]_vars /\ WF_vars(SearchResume)

\* The text splitter on its own, applied to every text of up to MaxLen
\* characters.
NextSplit == CreateDocuments

SpecSplit == InitSplit /\ [][NextSplit]_vars

\* Channel ingestion: the process-channel route, whose VectorDatabase
\* instance nothing initializes.
NextIngest ==
  \/ \E channelUrl \in ChannelUrls : ProcessChannelPOST(channelUrl)

SpecIngest == Init /\ [][NextIngest]_vars

\* The content normalizer: the two methods of VectorDatabase that turn the
\* texts of a video into chunks, on the instance of the ingestion route.
NextNormalize ==
  \/ VDBInitialize(IngestDb)
  \/ \E v \in NormVideoIds, transcript \in ShortTranscripts, description \in Descriptions :
       ProcessVideoContent(IngestDb, v, "A", transcript, description, 0)
  \/ \E given \in BOOLEAN, comments \in CommentLists, failAt \in 0..MaxComments :
       ProcessComments(IngestDb, "v1", "A", given, comments, failAt)

SpecNormalize == Init /\ [][NextNormalize]_vars

\* The seconds of the marker "[Ns]" a transcript chunk begins with.
MarkerSeconds(content) ==
  CASE content = "S" -> 125
    [] content = "T1" -> 5
    [] OTHER -> 0

\* C13: a citation built from a transcript chunk that begins with "[Ns]"
\* is returned with the label floor(N/60):(N mod 60, two digits) and with a
\* url that carries "&t=N".
C13_TranscriptCitationTimestamp ==
  (IsAsk /\ last.status = 200) =>
    \A i \in 1..Len(last.outSources) :
      last.outSources[i].source = "transcript" =>
        \E j \in 1..Len(last.retrieved) :
          /\ last.retrieved[j].source = "transcript"
          /\ last.retrieved[j].videoId = last.outSources[i].videoId
          /\ last.outSources[i].timestamp
               = TimestampLabel(MarkerSeconds(last.retrieved[j].content))
          /\ last.outSources[i].url.t = MarkerSeconds(last.retrieved[j].content)
IsNormalize == last.op \in {"processVideoContent", "processComments"}

\* C16: every chunk the normalizer emits, of every source kind, carries the
\* call's videoId, a url, a video title and a channel name, and the view
\* count and upload date of the metadata block; so does every row of the
\* index a search can return.
C16_ChunksCarryMetadata ==
  LET full(doc) ==
        /\ doc.url \in MetaUrls
        /\ doc.videoTitle \in Titles
        /\ doc.channelName \in ChannelNames
        /\ doc.viewCount \in ViewCounts
        /\ doc.uploadDate \in UploadDates
  IN /\ IsNormalize =>
          \A i \in 1..Len(last.stored) :
            last.stored[i].videoId = last.arg /\ full(last.stored[i])
     /\ \A r \in table : full(r)

\* C17: the normalizer fails with ValidationError exactly when videoId or
\* channelId is empty, and then emits no chunk.
C17_ValidationErrorIffEmptyId ==
  last.op = "processVideoContent" =>
    /\ (last.arg = "" \/ last.channelId = "") <=> (last.error = "ValidationError")
    /\ last.error = "ValidationError" => last.stored = <<>>

\* C20: processComments that returns normally has emitted, for the comments
\* with non-empty content in list order, one chunk each with the text
\* "{author}: {content}" and the source tag of comments, and nothing for a
\* comment with empty content; with an empty or missing list it emits no
\* chunk and leaves the index as it was.
C20_CommentsRendered ==
  [][ (last'.op = "processComments" /\ ~last'.threw) =>
        LET kept == SelectSeq(last'.comments, LAMBDA c : c.content # "") IN
        /\ Len(last'.stored) = Len(kept)
        /\ \A i \in 1..Len(kept) :
             /\ last'.stored[i].content = CommentText(kept[i].author, kept[i].content)
             /\ last'.stored[i].author = kept[i].author
             /\ last'.stored[i].source = "comments"
        /\ Len(last'.comments) = 0 => table' = table ]_vars

C20_Witness ==
  /\ last.op = "processComments" /\ ~last.threw
  /\ Len(last.comments) = 2
  /\ last.comments[1].content = ""
  /\ last.comments[2].content = "hi"
  /\ Len(last.stored) = 1
  /\ \E r \in table : r.content = "bob: hi" /\ r.source = "comments"
\* C12: when channel ingestion reaches its videos, a failure of one video
\* (its scrape, its metadata write or its transcript write) leaves the
\* request successful, and every other video of the channel has its row in
\* the videos table and its transcript stored.
C12_PerVideoFailureIsolated ==
  (last.op = "processChannelPOST" /\ last.outcome \in {"processed", "videoFailed"}) =>
    /\ last.status = 200
    /\ \A v \in Range(last.links) \ last.failed :
         /\ \E r \in videosTbl : r.video_id = v
         /\ HasTranscript(transcriptsTbl, v)
\* C15: a call that waits for the embedding provider or the similarity
\* search ends, whether or not the collaborator ever answers.
C15_AwaitingCallEnds ==
  (awaiting # NoAwait) ~> (awaiting = NoAwait)
\* The positions of the characters of t that are no whitespace, and t
\* without its leading and trailing whitespace.
Visible(t) == {i \in 1..Len(t) : ~IsSpace(t[i])}
Trimmed(t) == IF Visible(t) = {} THEN <<>> ELSE SubSeq(t, SetMin(Visible(t)), SetMax(Visible(t)))
ChunkText(t, c) == SubSeq(t, c.lo, c.hi)
IsSplit == last.op = "createDocuments"

\* C18 as stated: every non-empty text shorter than the chunk size yields
\* exactly one chunk, equal to the trimmed text.
C18_ShortTextOneChunk ==
  (IsSplit /\ Len(last.text) >= 1 /\ Len(last.text) < ChunkSize) =>
    /\ Len(last.chunks) = 1
    /\ ChunkText(last.text, last.chunks[1]) = Trimmed(last.text)

\* C18 amended: every text shorter than the chunk size that has a character
\* other than whitespace yields exactly one chunk, equal to the trimmed text.
C18_ShortVisibleTextOneChunk ==
  (IsSplit /\ Visible(last.text) # {} /\ Len(last.text) < ChunkSize) =>
    /\ Len(last.chunks) = 1
    /\ ChunkText(last.text, last.chunks[1]) = Trimmed(last.text)

C18_Witness ==
  /\ IsSplit
  /\ last.text = <<" ", "a", "\n">>
  /\ Len(last.chunks) = 1
  /\ ChunkText(last.text, last.chunks[1]) = <<"a">>

RECURSIVE Reassemble(_, _, _)
\* The first i chunks concatenated, each chunk after the first without its
\* first ChunkOverlap characters.
Reassemble(t, c, i) ==
  IF i = 0 THEN <<>>
  ELSE IF i = 1 THEN ChunkText(t, c[1])
  ELSE Reassemble(t, c, i - 1)
         \o SubSeq(ChunkText(t, c[i]), ChunkOverlap + 1, PLen(c[i]))

\* C19 as stated: for a text longer than the chunk size every chunk is
\* non-empty and at most the chunk size long, consecutive chunks share
\* exactly ChunkOverlap characters, and the chunks concatenated without the
\* overlaps are the text.
C19_ExactOverlapRoundTrip ==
  (IsSplit /\ Len(last.text) > ChunkSize) =>
    LET t == last.text
        c == last.chunks IN
    /\ \A i \in 1..Len(c) : PLen(c[i]) >= 1 /\ PLen(c[i]) <= ChunkSize
    /\ \A i \in 1..(Len(c) - 1) : c[i].hi - c[i + 1].lo + 1 = ChunkOverlap
    /\ Reassemble(t, c, Len(c)) = t

\* C19 amended: for a text longer than the chunk size every chunk is a
\* stretch of the text that begins and ends with a character other than
\* whitespace and is at most the chunk size long; each chunk begins no
\* earlier and ends no earlier than the one before it, consecutive chunks
\* share at most ChunkOverlap characters, and every character other than
\* whitespace is in a chunk.
C19_ChunksBoundedOrderedCovering ==
  (IsSplit /\ Len(last.text) > ChunkSize) =>
    LET t == last.text
        c == last.chunks IN
    /\ \A i \in 1..Len(c) :
         /\ 1 <= c[i].lo /\ c[i].lo <= c[i].hi /\ c[i].hi <= Len(t)
         /\ PLen(c[i]) <= ChunkSize
         /\ ~IsSpace(t[c[i].lo]) /\ ~IsSpace(t[c[i].hi])
    /\ \A i \in 1..(Len(c) - 1) :
         /\ c[i].lo <= c[i + 1].lo
         /\ c[i].hi <= c[i + 1].hi
         /\ c[i].hi - c[i + 1].lo + 1 <= ChunkOverlap
    /\ \A p \in Visible(t) : \E i \in 1..Len(c) : c[i].lo <= p /\ p <= c[i].hi

C19_Witness ==
  /\ IsSplit
  /\ Len(last.text) > ChunkSize
  /\ Len(last.chunks) = 2
  /\ last.chunks[1].hi - last.chunks[2].lo + 1 = ChunkOverlap
  /\ \E p \in 1..Len(last.text) : IsSpace(last.text[p])
\* C21: initialize() of the engine called while a chain exists constructs
\* nothing and keeps the chain and the store handle; called without a chain
\* it leaves the engine without one when it throws, and builds one only when
\* it returns normally.
C21_InitializeIdempotent ==
  [][ last'.op = "initialize" =>
        /\ chain # NoChain =>
             /\ last'.constructed = {}
             /\ chain' = chain
             /\ vectorStore' = vectorStore
        /\ (chain = NoChain /\ last'.threw) => chain' = NoChain
        /\ (chain = NoChain /\ chain' # NoChain) => ~last'.threw ]_vars

\* C22: setSystemPrompt leaves the engine without a chain and with the new
\* directive, and every answered ask was generated by a chain built with
\* the directive that is set when it answers.
C22_AnswerUsesCurrentDirective ==
  /\ last.op = "setSystemPrompt" => (chain = NoChain /\ systemPrompt = last.arg)
  /\ (IsAsk /\ last.outcome = "ok") =>
       (last.directive = systemPrompt /\ chain = systemPrompt)

C22_Witness ==
  /\ IsAsk /\ last.outcome = "ok"
  /\ last.directive = "custom"
  /\ "chain" \in last.constructed
  /\ Len(last.histBefore) > 0

\* C23: clearHistory empties the memory, and every other step keeps the
\* turns the memory holds, in their order, as the first turns of the memory
\* after it.
C23_TurnsLeaveOnlyByReset ==
  [][ IF last'.op = "clearHistory"
        THEN memory' = <<>>
        ELSE /\ Len(memory') >= Len(memory)
             /\ SubSeq(memory', 1, Len(memory)) = memory ]_vars

C23_Witness ==
  /\ IsAsk /\ last.outcome = "ok"
  /\ "chain" \in last.constructed
  /\ Len(last.histBefore) > 0
  /\ SubSeq(memory, 1, Len(last.histBefore)) = last.histBefore
  /\ systemPrompt = "default"
\* C24: a search that returns has a store handle afterwards and returns what
\* the query selects from the table, also when the call found no handle; and
\* no step takes a store handle away.
C24_SearchInitializesFirst ==
  /\ [](last.op = "similaritySearch" /\ ~last.threw =>
          /\ vectorStore[EngineDb]
          /\ last.results \in TopK(table, last.arg, last.k))
  /\ [][\A d \in DBs : vectorStore[d] => vectorStore'[d]]_vars

C24_Witness ==
  /\ last.op = "similaritySearch" /\ ~last.threw
  /\ "vectorStore" \in last.constructed
  /\ Len(last.results) > 0
\* C25: every processVideoContent call that returns adds exactly one row
\* with source "title" to the table, whatever the title, the transcript
\* and the description are.
C25_ExactlyOneTitleChunk ==
  [][ (last'.op = "processVideoContent" /\ ~last'.threw) =>
        Cardinality({r \in table' \ table : r.source = "title"}) = 1 ]_vars
\* C26: a process-channel request for a channel whose row is in the
\* channels table scrapes no link and leaves the channels, videos and
\* transcripts tables and the vector table as they are, also when the
\* request that stored the row stopped before its last video.
C26_ExistingChannelUntouched ==
  [][ (last'.op = "processChannelPOST" /\ ExtractChannelId(last'.arg) \in channelsTbl) =>
        /\ last'.links = <<>>
        /\ UNCHANGED <<channelsTbl, videosTbl, transcriptsTbl, table, nextId>> ]_vars

C26_Witness ==
  /\ last.op = "processChannelPOST"
  /\ last.outcome = "alreadyProcessed"
  /\ ExtractChannelId(last.arg) \in channelsTbl
  /\ \E v \in Range(VideoLinks(ExtractChannelId(last.arg))) :
       /\ \E r \in videosTbl : r.video_id = v
       /\ ~HasTranscript(transcriptsTbl, v)
\* ---------------------------------------- requests in flight together
\* Every await of a handler is a point where another request's handler can
\* run: the actions below are the segments of POST /api/process-channel
\* and of the store* methods between two awaits.

\* (variant of LoopSteps in which the video is indexed before its row is
\* stored)
LoopStepsIndexFirst == <<"index", "storeVideo", "storeTranscript">>

\* The awaited writes of the body of the route's for loop, in their order:
\* db.storeVideo, db.storeTranscript, vectorDb.processVideoContent
\* (fetchTranscript, between the first two, is the in-memory mock).
LoopSteps == <<"storeVideo", "storeTranscript", "index">>

\* The response the handler of request p returns, and p's slot free again.
PCRespond(p, channelUrl, outcome, links, failed) ==
  /\ inflight' = [inflight EXCEPT ![p] = Idle]
  /\ last' = [NoCall EXCEPT
                !.op = "processChannelPOST", !.arg = channelUrl,
                !.outcome = outcome,
                !.status = IF outcome \in {"alreadyProcessed", "processed"} THEN 200
                           ELSE 500,
                !.links = links, !.failed = failed]

\* From the request to the answer of db.getChannel(channelId): the
\* 'Channel already processed' response, or on to the scrape.
PCCheck(p, channelUrl) ==
  LET channelId == ExtractChannelId(channelUrl) IN
  /\ inflight[p] = Idle
  /\ channelId # "null"
  /\ IF ChannelExists(channelsTbl, channelId)
       THEN PCRespond(p, channelUrl, "alreadyProcessed", <<>>, {})
       ELSE /\ inflight' = [inflight EXCEPT ![p] =
                              [op |-> "processChannel", pc |-> "scrape",
                               channelUrl |-> channelUrl, channelId |-> channelId,
                               videos |-> <<>>, failed |-> {}, i |-> 0, k |-> 0]]
            /\ UNCHANGED last
  /\ UNCHANGED <<vectorStore, table, nextId, videosTbl, chain, memory, systemPrompt,
                 okAsks, channelsTbl, transcriptsTbl, awaiting>>

\* scraper.scrapeChannelWithVideos(channelUrl, 20) settles.
PCScrape(p) ==
  LET r == inflight[p] IN
  /\ r.op = "processChannel" /\ r.pc = "scrape"
  /\ \E ok \in BOOLEAN, scrapeFailed \in SUBSET Range(VideoLinks(r.channelId)) :
       IF ok
         THEN /\ inflight' = [inflight EXCEPT ![p] =
                                [r EXCEPT !.pc = "storeChannel",
                                          !.videos = ProcessVideoBatch(VideoLinks(r.channelId),
                                                                       scrapeFailed),
                                          !.failed = scrapeFailed]]
              /\ UNCHANGED last
         ELSE /\ scrapeFailed = {}
              /\ PCRespond(p, r.channelUrl, "scrapeFailed", <<>>, {})
  /\ UNCHANGED <<vectorStore, table, nextId, videosTbl, chain, memory, systemPrompt,
                 okAsks, channelsTbl, transcriptsTbl, awaiting>>

\* db.storeChannel(...) settles.
PCStoreChannel(p) ==
  LET r == inflight[p] IN
  /\ r.op = "processChannel" /\ r.pc = "storeChannel"
  /\ \E ok \in BOOLEAN :
       IF ok
         THEN /\ channelsTbl' = channelsTbl \cup {r.channelId}
              /\ IF Len(r.videos) = 0
                   THEN PCRespond(p, r.channelUrl, "processed",
                                  VideoLinks(r.channelId), r.failed)
                   ELSE /\ inflight' = [inflight EXCEPT ![p] =
                                          [r EXCEPT !.pc = "loop", !.i = 1, !.k = 1]]
                        /\ UNCHANGED last
         ELSE /\ UNCHANGED channelsTbl
              /\ PCRespond(p, r.channelUrl, "storeChannelFailed", <<>>, {})
  /\ UNCHANGED <<vectorStore, table, nextId, videosTbl, chain, memory, systemPrompt,
                 okAsks, transcriptsTbl, awaiting>>

\* One awaited write of the loop body settles: the write LoopSteps[k] for
\* videos[i], then the next write, the next video or the final response; a
\* write that throws ends the handler in its catch (500).
PCLoopStep(p) ==
  LET r == inflight[p]
      v == r.videos[r.i]
      step == LoopSteps[r.k]
  IN
  /\ r.op = "processChannel" /\ r.pc = "loop"
  /\ \E ok \in BOOLEAN, url \in Urls :
       LET idx == VideoIndexed([tbl |-> table, nid |-> nextId], v, r.channelId, url) IN
       /\ (step = "index" /\ ~ok) => StoreOpen(IngestDb)
       /\ idx.nid <= MaxIds + 1
       /\ videosTbl' = IF ok /\ step = "storeVideo"
                         THEN VideoStored(videosTbl, v, url) ELSE videosTbl
       /\ transcriptsTbl' = IF ok /\ step = "storeTranscript"
                              THEN TranscriptStored(transcriptsTbl, v) ELSE transcriptsTbl
       /\ table' = IF ok /\ step = "index" THEN idx.tbl ELSE table
       /\ nextId' = IF ok /\ step = "index" THEN idx.nid ELSE nextId
       /\ IF ~ok
            THEN PCRespond(p, r.channelUrl, "videoFailed", VideoLinks(r.channelId),
                           r.failed \cup {v})
            ELSE IF r.k < Len(LoopSteps)
              THEN /\ inflight' = [inflight EXCEPT ![p] = [r EXCEPT !.k = r.k + 1]]
                   /\ UNCHANGED last
            ELSE IF r.i < Len(r.videos)
              THEN /\ inflight' = [inflight EXCEPT ![p] = [r EXCEPT !.i = r.i + 1, !.k = 1]]
                   /\ UNCHANGED last
            ELSE PCRespond(p, r.channelUrl, "processed", VideoLinks(r.channelId), r.failed)
  /\ UNCHANGED <<vectorStore, chain, memory, systemPrompt, okAsks, channelsTbl, awaiting>>

\* The store* methods of YouTubeDatabase (storeChannel, storeVideo,
\* storeTranscript), each in its two awaited statements.
StoreKinds == {"channel", "video", "transcript"}
StoreKeys(kind) == IF kind = "channel" THEN ChannelIds ELSE {"v1"}
StoreUrls == MetaUrls \cup Urls

\* The row of the key is in the table of the kind.
RowExists(kind, key) ==
  CASE kind = "channel" -> key \in channelsTbl
    [] kind = "video" -> \E r \in videosTbl : r.video_id = key
    [] OTHER -> HasTranscript(transcriptsTbl, key)

\* The tables with a PRIMARY KEY on the key the store method looks up:
\* channels.channel_id and videos.video_id; transcripts has its own
\* autoincrement key and no constraint on video_id.
KeyConstrained(kind) == kind \in {"channel", "video"}

\* const existing = await this.getX(key): the SELECT is executed.
StoreSelect(p, kind, key, url) ==
  /\ inflight[p] = Idle
  /\ inflight' = [inflight EXCEPT ![p] =
                    [op |-> "store", kind |-> kind, key |-> key, url |-> url,
                     existing |-> RowExists(kind, key)]]
  /\ UNCHANGED <<vectorStore, table, nextId, videosTbl, chain, memory, systemPrompt,
                 okAsks, channelsTbl, transcriptsTbl, awaiting, last>>

\* The UPDATE (existing row found) or the INSERT (none found) is executed:
\* an INSERT of a key that a PRIMARY KEY table holds by now is rejected
\* and run() throws, as nothing catches it.
StoreWrite(p) ==
  LET r == inflight[p]
      conflict == r.op = "store" /\ ~r.existing /\ KeyConstrained(r.kind)
                  /\ RowExists(r.kind, r.key)
  IN
  /\ r.op = "store"
  /\ channelsTbl' = IF r.kind = "channel" /\ ~r.existing /\ ~conflict
                      THEN channelsTbl \cup {r.key} ELSE channelsTbl
  /\ videosTbl' = IF r.kind = "video" /\ ~conflict
                    THEN (IF r.existing
                            THEN {IF x.video_id = r.key THEN [x EXCEPT !.url = r.url] ELSE x
                                  : x \in videosTbl}
                            ELSE videosTbl \cup {[video_id |-> r.key, url |-> r.url]})
                    ELSE videosTbl
  /\ transcriptsTbl' = IF r.kind = "transcript" /\ ~r.existing
                         THEN TranscriptInserted(transcriptsTbl, r.key)
                         ELSE transcriptsTbl
  /\ inflight' = [inflight EXCEPT ![p] = Idle]
  /\ last' = [NoCall EXCEPT !.op = "store", !.arg = r.key, !.threw = conflict,
                            !.error = IF conflict THEN "Error" ELSE "none"]
  /\ UNCHANGED <<vectorStore, table, nextId, chain, memory, systemPrompt, okAsks, awaiting>>

\* Requests to the process-channel route in flight together.  initialize()
\* of the route's VectorDatabase instance is a step of its own: the route
\* never calls it, and without it no ingestion adds a vector.
NextRequests ==
  \/ VDBInitialize(IngestDb)
  \/ \E p \in Procs, channelUrl \in IngestChannels : PCCheck(p, channelUrl)
  \/ \E p \in Procs : PCScrape(p)
  \/ \E p \in Procs : PCStoreChannel(p)
  \/ \E p \in Procs : PCLoopStep(p)

SpecRequests == Init /\ [][NextRequests]_vars

\* Calls of the store methods in flight together.
NextStore ==
  \/ \E p \in Procs, kind \in StoreKinds :
       \E key \in StoreKeys(kind), url \in StoreUrls : StoreSelect(p, kind, key, url)
  \/ \E p \in Procs : StoreWrite(p)

SpecStore == Init /\ [][NextStore]_vars

\* C27: every video id that has rows in the vector table has a row in the
\* videos table, at every step of every ingestion.
C27_VectorsHaveMetadataRow ==
  \A r \in table : \E row \in videosTbl : row.video_id = r.videoId

C27_Witness ==
  /\ table # {}
  /\ \E p \in Procs :
       /\ inflight[p].op = "processChannel" /\ inflight[p].pc = "loop"
       /\ inflight[p].i = 2
       /\ \E r \in table : r.videoId = inflight[p].videos[1]

\* C28: under every interleaving of store calls each key has at most one
\* row in its table and no call throws.
C28_KeyedUpsert ==
  /\ last.op = "store" => ~last.threw
  /\ \A r1, r2 \in videosTbl : r1.video_id = r2.video_id => r1 = r2
  /\ \A r1, r2 \in transcriptsTbl : r1.video_id = r2.video_id => r1 = r2

\* C29: no two requests are storing the videos of the same channel
\* together.
C29_NoDoubleIngestion ==
  \A p, q \in Procs :
    (/\ p # q
     /\ inflight[p].op = "processChannel" /\ inflight[p].pc = "loop"
     /\ inflight[q].op = "processChannel" /\ inflight[q].pc = "loop")
    => inflight[p].channelId # inflight[q].channelId
\* ------------------------------------------------------- YouTubeScraper
\* The anchors a#video-title-link, a#video-title of a channel's videos
\* page in document order, each named by the video its href links to; "x"
\* is an anchor whose href has no "/watch?v=".  The pages scraped are the
\* beginnings of this one.
VideosPage == <<"v1", "x", "v2", "v3", "v4", "v5", "v6">>
Pages == {SubSeq(VideosPage, 1, n) : n \in 0..Len(VideosPage)}

\* href && href.includes('/watch?v=')
IsWatchLink(a) == a # "x"

\* const batchSize = 5
BatchSize == 5

RECURSIVE EachAnchor(_, _, _, _)
\* The .each callback from anchor i on: a watch link is pushed, and only
\* then is videoLinks.length >= maxVideos tested, returning false to stop.
EachAnchor(page, i, videoLinks, maxVideos) ==
  IF i > Len(page) THEN videoLinks
  ELSE IF IsWatchLink(page[i])
    THEN LET pushed == Append(videoLinks, page[i]) IN
         IF Len(pushed) >= maxVideos THEN pushed
         ELSE EachAnchor(page, i + 1, pushed, maxVideos)
  ELSE EachAnchor(page, i + 1, videoLinks, maxVideos)

\* The links scrapeVideoLinks returns when the page was fetched.
ScrapedLinks(page, maxVideos) == EachAnchor(page, 1, <<>>, maxVideos)

RECURSIVE BatchesFrom(_, _)
\* videoLinks.slice(i, i + batchSize) for i = from - 1, from - 1 + batchSize, ...
BatchesFrom(videoLinks, from) ==
  IF from > Len(videoLinks) THEN <<>>
  ELSE <<SubSeq(videoLinks, from, Min(from + BatchSize - 1, Len(videoLinks)))>>
       \o BatchesFrom(videoLinks, from + BatchSize)

RECURSIVE PushBatches(_, _, _)
\* videos.push(...batchResults) for batches[1..upTo]
PushBatches(batches, upTo, scrapeFailed) ==
  IF upTo = 0 THEN <<>>
  ELSE PushBatches(batches, upTo - 1, scrapeFailed)
       \o ProcessVideoBatch(batches[upTo], scrapeFailed)

\* scrapeVideoLinks(channelUrl, maxVideos): throws when the videos page
\* cannot be fetched.
ScrapeVideoLinks(page, maxVideos) ==
  \E ok \in BOOLEAN :
    /\ last' = [NoCall EXCEPT !.op = "scrapeVideoLinks", !.page = page,
                              !.maxVideos = maxVideos, !.threw = ~ok,
                              !.links = IF ok THEN ScrapedLinks(page, maxVideos) ELSE <<>>]
    /\ UNCHANGED <<vectorStore, table, nextId, videosTbl, chain, memory, systemPrompt, okAsks>>
    /\ UNCHANGED <<channelsTbl, transcriptsTbl, awaiting, inflight>>

\* scrapeChannelWithVideos(channelUrl, maxVideos): throws when the channel
\* page or the videos page fails; scrapeFailed are the links whose
\* scrapeVideo throws.
ScrapeChannelWithVideos(page, maxVideos, scrapeFailed) ==
  \E ok \in BOOLEAN :
    LET videoLinks == ScrapedLinks(page, maxVideos)
        batches == BatchesFrom(videoLinks, 1)
    IN
    /\ scrapeFailed \subseteq Range(videoLinks)
    /\ ~ok => scrapeFailed = {}
    /\ last' = [NoCall EXCEPT !.op = "scrapeChannelWithVideos", !.page = page,
                              !.maxVideos = maxVideos, !.threw = ~ok,
                              !.links = IF ok THEN videoLinks ELSE <<>>,
                              !.failed = scrapeFailed,
                              !.batches = IF ok THEN batches ELSE <<>>,
                              !.videos = IF ok THEN PushBatches(batches, Len(batches),
                                                                scrapeFailed)
                                         ELSE <<>>]
    /\ UNCHANGED <<vectorStore, table, nextId, videosTbl, chain, memory, systemPrompt, okAsks>>
    /\ UNCHANGED <<channelsTbl, transcriptsTbl, awaiting, inflight>>

\* The scraper on its own, over the pages and every maxVideos from 0 on.
NextScrape ==
  \/ \E page \in Pages, maxVideos \in 0..MaxRequested : ScrapeVideoLinks(page, maxVideos)
  \/ \E page \in Pages, maxVideos \in 0..MaxRequested :
       \E scrapeFailed \in SUBSET Range(page) :
         ScrapeChannelWithVideos(page, maxVideos, scrapeFailed)

SpecScrape == Init /\ [][NextScrape]_vars

\* C30: scrapeVideoLinks returns at most maxVideos links for every
\* maxVideos >= 0; scrapeChannelWithVideos returns at most maxVideos
\* videos, which are the links whose scrape succeeded in page order, taken
\* in consecutive batches of at most 5.
C30_AtMostMaxVideos ==
  (last.op \in {"scrapeVideoLinks", "scrapeChannelWithVideos"} /\ ~last.threw) =>
    /\ Len(last.links) <= last.maxVideos
    /\ last.op = "scrapeChannelWithVideos" =>
         /\ Len(last.videos) <= last.maxVideos
         /\ last.videos = SelectSeq(SelectSeq(last.page, IsWatchLink),
                                    LAMBDA v : v \in Range(last.links) \ last.failed)
         /\ \A b \in 1..Len(last.batches) :
              /\ Len(last.batches[b]) \in 1..BatchSize
              /\ last.batches[b] = SubSeq(last.links, (b - 1) * BatchSize + 1,
                                          (b - 1) * BatchSize + Len(last.batches[b]))
              /\ b < Len(last.batches) => Len(last.batches[b]) = BatchSize
====
